---------------------------- MODULE Spec2Model ----------------------------
(***************************************************************************)
(* Model of BIG_automatique/config_script.py: the compiler that turns an   *)
(* intent document (ASes, routers, links, BGP switches) into one IPv6      *)
(* IGP + BGP configuration text per router.                                *)
(*                                                                         *)
(* Text is modelled as a sequence of one-character strings, an IPv6        *)
(* address as its eight 16-bit groups, and an output line as a record      *)
(* holding the line's template and the values formatted into it.           *)
(***************************************************************************)
EXTENDS Integers, Sequences, FiniteSets, TLC

(***************************************************************************)
(* Bounds of the model.                                                    *)
(***************************************************************************)
\* longest "links" list of an enumerated intent document
MaxLinks == 3
\* longest "routers" list of an AS in an enumerated intent document
MaxAsRouters == 2

(***************************************************************************)
(* Text: characters, their code points, Python's str ordering.             *)
(***************************************************************************)
HexChars == <<"0","1","2","3","4","5","6","7","8","9","a","b","c","d","e","f">>

\* code point of a character (ord), for the characters addresses are made of
Ord(c) ==
  CASE c = "/" -> 47
    [] c = ":" -> 58
    [] c \in {"0","1","2","3","4","5","6","7","8","9"} ->
         47 + (CHOOSE i \in 1..10 : HexChars[i] = c)
    [] OTHER -> 86 + (CHOOSE i \in 11..16 : HexChars[i] = c)

\* Python's  a < b  on str: lexicographic by code point, a proper prefix first
RECURSIVE StrLess(_, _)
StrLess(a, b) ==
  IF b = <<>> THEN FALSE
  ELSE IF a = <<>> THEN TRUE
  ELSE IF Head(a) = Head(b) THEN StrLess(Tail(a), Tail(b))
  ELSE Ord(Head(a)) < Ord(Head(b))

\* index of the first occurrence of character c in text s, 0 when absent
RECURSIVE FindChar(_, _, _)
FindChar(s, c, i) ==
  IF i > Len(s) THEN 0
  ELSE IF s[i] = c THEN i
  ELSE FindChar(s, c, i + 1)

\* s.split(c): the pieces of s between occurrences of c
RECURSIVE Split(_, _)
Split(s, c) ==
  LET i == FindChar(s, c, 1)
  IN IF i = 0 THEN <<s>>
     ELSE <<SubSeq(s, 1, i - 1)>> \o Split(SubSeq(s, i + 1, Len(s)), c)

\* addr.split("/")[0].strip()
ip_no_prefix(addr) == Split(addr, "/")[1]

\* int(s, 16) of a group of hexadecimal digits
RECURSIVE ParseHex(_)
ParseHex(s) ==
  IF s = <<>> THEN 0
  ELSE 16 * ParseHex(SubSeq(s, 1, Len(s) - 1))
       + (CHOOSE i \in 1..16 : HexChars[i] = s[Len(s)]) - 1

\* int(s) of a decimal prefix length
RECURSIVE ParseDec(_)
ParseDec(s) ==
  IF s = <<>> THEN 0
  ELSE 10 * ParseDec(SubSeq(s, 1, Len(s) - 1))
       + (CHOOSE i \in 1..10 : HexChars[i] = s[Len(s)]) - 1

\* format(n, "x"): lowercase hexadecimal without leading zeros
RECURSIVE ToHex(_)
ToHex(n) ==
  IF n < 16 THEN <<HexChars[n + 1]>>
  ELSE ToHex(n \div 16) \o <<HexChars[(n % 16) + 1]>>

\* str(n) of a prefix length
RECURSIVE ToDec(_)
ToDec(n) ==
  IF n < 10 THEN <<HexChars[n + 1]>>
  ELSE ToDec(n \div 10) \o <<HexChars[(n % 10) + 1]>>

(***************************************************************************)
(* ipaddress: IPv6Network(text), network_address + k, str(address).        *)
(***************************************************************************)
\* the groups of one side of "::" (an empty side has none)
GroupsOf(s) ==
  IF s = <<>> THEN <<>>
  ELSE LET parts == Split(s, ":")
       IN [i \in 1..Len(parts) |-> ParseHex(parts[i])]

\* index of the first "::" in s, 0 when absent
RECURSIVE FindDouble(_, _)
FindDouble(s, i) ==
  IF i + 1 > Len(s) THEN 0
  ELSE IF s[i] = ":" /\ s[i + 1] = ":" THEN i
  ELSE FindDouble(s, i + 1)

\* the eight groups of an address text, "::" standing for the missing zeros
ParseAddr(s) ==
  LET d == FindDouble(s, 1)
  IN IF d = 0 THEN GroupsOf(s)
     ELSE LET hi == GroupsOf(SubSeq(s, 1, d - 1))
              lo == GroupsOf(SubSeq(s, d + 2, Len(s)))
          IN hi \o [i \in 1..(8 - Len(hi) - Len(lo)) |-> 0] \o lo

\* whether address h has a bit set below prefix length len (a multiple of 16)
HostBitsSet(h, len) == \E i \in 1..8 : 16 * (i - 1) >= len /\ h[i] # 0

\* ipaddress.IPv6Network(text), strict: ok is FALSE where it raises ValueError
IPv6Network(text) ==
  LET parts == Split(text, "/")
      h == ParseAddr(parts[1])
      len == IF Len(parts) = 2 THEN ParseDec(parts[2]) ELSE 128
  IN [ok |-> Len(h) = 8 /\ len <= 128 /\ ~HostBitsSet(h, len),
      network_address |-> h, prefixlen |-> len]

\* address + k on 128 bits, as carries through the 16-bit groups
RECURSIVE AddrAdd(_, _)
AddrAdd(h, k) ==
  IF h = <<>> THEN <<>>
  ELSE LET n == Len(h)
           s == h[n] + k
       IN AddrAdd(SubSeq(h, 1, n - 1), s \div 65536) \o <<s % 65536>>

\* length of the run of zero groups of h that starts at group i
RECURSIVE ZeroRun(_, _)
ZeroRun(h, i) ==
  IF i > Len(h) \/ h[i] # 0 THEN 0 ELSE 1 + ZeroRun(h, i + 1)

\* the groups h[i..j] joined with ":"
RECURSIVE JoinGroups(_, _, _)
JoinGroups(h, i, j) ==
  IF i > j THEN <<>>
  ELSE IF i = j THEN ToHex(h[i])
  ELSE ToHex(h[i]) \o <<":">> \o JoinGroups(h, i + 1, j)

\* str(IPv6Address): the leftmost longest run of two or more zero groups
\* is written "::"
AddrStr(h) ==
  LET best == CHOOSE i \in 1..8 :
                /\ \A j \in 1..8 : ZeroRun(h, j) <= ZeroRun(h, i)
                /\ \A j \in 1..(i - 1) : ZeroRun(h, j) < ZeroRun(h, i)
      run == ZeroRun(h, best)
  IN IF run < 2 THEN JoinGroups(h, 1, 8)
     ELSE JoinGroups(h, 1, best - 1) \o <<":", ":">>
          \o JoinGroups(h, best + run, 8)

\* f"{address}/{length}"
WithPrefix(h, len) == AddrStr(h) \o <<"/">> \o ToDec(len)


(***************************************************************************)
(* The intent document.  "ases" and "routers" are JSON objects, kept here  *)
(* as lists in key order; an optional key that is absent holds Absent (a   *)
(* string), <<>> (a text) or 0 (an AS number).                             *)
(***************************************************************************)
Absent == "<absent>"
NoError == "<none>"

\* ensure(cond, msg) / raise SystemExit / an uncaught exception: the kinds
\* of abort, named by the message or the exception
ErrPoolLen == "loopback pool must be /64"
ErrNoRouters == "must define a non-empty routers list"
ErrNoSubnet == "missing subnet_v6"
ErrSubnetLen == "subnet must be /64"
ErrEndpoints == "must have exactly 2 endpoints"
ErrReused == "Interface reused"
ErrNotInLink == "Router not in link"
ErrIgp == "Unsupported IGP type"
ErrNoFile == "Intent file not found"
ErrValue == "ValueError"
ErrKey == "KeyError"

\* the aborts that ensure() or an explicit SystemExit raise for a bad intent
ValidationErrors ==
  {ErrPoolLen, ErrNoRouters, ErrNoSubnet, ErrSubnetLen, ErrEndpoints,
   ErrReused, ErrNotInLink, ErrIgp}

\* dict with key k set to v (a later assignment to the same key overwrites)
Put(d, k, v) == (k :> v) @@ d
EmptyDict == <<>>

(***************************************************************************)
(* Allocation of the addresses.                                            *)
(***************************************************************************)
\* for idx, rname in enumerate(routers, start=1): out[rname] = base + idx
RECURSIVE AssignLoopbacks(_, _, _, _)
AssignLoopbacks(routers, base, idx, out) ==
  IF idx > Len(routers) THEN out
  ELSE AssignLoopbacks(routers, base, idx + 1,
                       Put(out, routers[idx], WithPrefix(AddrAdd(base, idx), 128)))

RECURSIVE AllocLoopbacksFrom(_, _, _)
AllocLoopbacksFrom(ases, i, out) ==
  IF i > Len(ases) THEN [err |-> NoError, out |-> out]
  ELSE LET asdata == ases[i]
           pool == IPv6Network(asdata.loopbacks)
       IN IF ~pool.ok THEN [err |-> ErrValue, out |-> out]
          ELSE IF pool.prefixlen # 64 THEN [err |-> ErrPoolLen, out |-> out]
          ELSE IF asdata.routers = <<>> THEN [err |-> ErrNoRouters, out |-> out]
          ELSE AllocLoopbacksFrom(ases, i + 1,
                 AssignLoopbacks(asdata.routers, pool.network_address, 1, out))

allocate_loopbacks(doc) == AllocLoopbacksFrom(doc.ases, 1, EmptyDict)

\* the two assignments of one link, endpoint 0 first
AssignLink(out, eps, net) ==
  Put(Put(out, <<eps[1].router, eps[1].interface>>,
               WithPrefix(AddrAdd(net.network_address, 1), 64)),
      <<eps[2].router, eps[2].interface>>,
      WithPrefix(AddrAdd(net.network_address, 2), 64))

RECURSIVE AllocLinkIpsFrom(_, _, _)
AllocLinkIpsFrom(links, i, out) ==
  IF i > Len(links) THEN [err |-> NoError, out |-> out]
  ELSE LET link == links[i]
           net == IPv6Network(link.subnet_v6)
           eps == link.endpoints
       IN IF link.subnet_v6 = <<>> THEN [err |-> ErrNoSubnet, out |-> out]
          ELSE IF ~net.ok THEN [err |-> ErrValue, out |-> out]
          ELSE IF net.prefixlen # 64 THEN [err |-> ErrSubnetLen, out |-> out]
          ELSE IF Len(eps) # 2 THEN [err |-> ErrEndpoints, out |-> out]
          ELSE IF <<eps[1].router, eps[1].interface>> \in DOMAIN out
                  \/ <<eps[2].router, eps[2].interface>> \in DOMAIN out
               THEN [err |-> ErrReused, out |-> out]
          ELSE AllocLinkIpsFrom(links, i + 1, AssignLink(out, eps, net))

allocate_link_ips(doc) == AllocLinkIpsFrom(doc.links, 1, EmptyDict)

\* adj.get(rname, [])
AdjOf(a, rname) == IF rname \in DOMAIN a THEN a[rname] ELSE <<>>

\* for ep in link["endpoints"]: adj.setdefault(ep["router"], []).append(link)
RECURSIVE AdjAddLink(_, _, _)
AdjAddLink(a, link, j) ==
  IF j > Len(link.endpoints) THEN a
  ELSE LET r == link.endpoints[j].router
       IN AdjAddLink(Put(a, r, Append(AdjOf(a, r), link)), link, j + 1)

RECURSIVE AdjFrom(_, _, _)
AdjFrom(links, i, a) ==
  IF i > Len(links) THEN a
  ELSE AdjFrom(links, i + 1, AdjAddLink(a, links[i], 1))

adjacency(doc) == AdjFrom(doc.links, 1, EmptyDict)

\* the endpoint of link that belongs to rname: [ok, ep]
get_endpoint_for_router(link, rname) ==
  LET eps == link.endpoints
  IN IF eps[1].router = rname THEN [ok |-> TRUE, ep |-> eps[1]]
     ELSE IF eps[2].router = rname THEN [ok |-> TRUE, ep |-> eps[2]]
     ELSE [ok |-> FALSE, ep |-> eps[1]]

\* the endpoint of link on the other side from rname: [ok, ep]
other_endpoint(link, rname) ==
  LET eps == link.endpoints
  IN IF eps[1].router = rname THEN [ok |-> TRUE, ep |-> eps[2]]
     ELSE IF eps[2].router = rname THEN [ok |-> TRUE, ep |-> eps[1]]
     ELSE [ok |-> FALSE, ep |-> eps[1]]

(***************************************************************************)
(* Output lines.  k is the line with {} where a value is formatted in;     *)
(* a is the address or prefix, n and m the numbers, s the name put there.  *)
(***************************************************************************)
Line(k) == [k |-> k, a |-> <<>>, n |-> 0, m |-> 0, s |-> ""]
LineA(k, a) == [k |-> k, a |-> a, n |-> 0, m |-> 0, s |-> ""]
LineN(k, n) == [k |-> k, a |-> <<>>, n |-> n, m |-> 0, s |-> ""]
LineAN(k, a, n) == [k |-> k, a |-> a, n |-> n, m |-> 0, s |-> ""]
LineNM(k, n, m) == [k |-> k, a |-> <<>>, n |-> n, m |-> m, s |-> ""]
LineS(k, s) == [k |-> k, a |-> <<>>, n |-> 0, m |-> 0, s |-> s]

\* routers[rname] and ases[asn] of the intent
RouterRec(doc, rname) ==
  doc.routers[CHOOSE i \in 1..Len(doc.routers) : doc.routers[i].name = rname]
AsData(doc, asn) ==
  doc.ases[CHOOSE i \in 1..Len(doc.ases) : doc.ases[i].asn = asn]

\* the list xs without its element at index i
DropAt(xs, i) == SubSeq(xs, 1, i - 1) \o SubSeq(xs, i + 1, Len(xs))

\* sorted(xs) of a list of texts
RECURSIVE sorted(_)
sorted(xs) ==
  IF xs = <<>> THEN <<>>
  ELSE LET i == CHOOSE i \in 1..Len(xs) :
                  /\ \A j \in 1..Len(xs) : ~StrLess(xs[j], xs[i])
                  /\ \A j \in 1..(i - 1) : StrLess(xs[i], xs[j])
       IN <<xs[i]>> \o sorted(DropAt(xs, i))

\* the hash seeds a process may run with: the seed fixes the order in which
\* a set of texts iterates, and differs from one process to the next
HashSeeds == {0, 1}

\* the elements of the set S of texts, one each, smallest first
RECURSIVE ascending(_)
ascending(S) ==
  IF S = {} THEN <<>>
  ELSE LET x == CHOOSE x \in S : \A y \in S : ~StrLess(y, x)
       IN <<x>> \o ascending(S \ {x})

Reverse(xs) == [i \in 1..Len(xs) |-> xs[Len(xs) + 1 - i]]
Rotate(xs, k) == [i \in 1..Len(xs) |-> xs[((i - 1 + k) % Len(xs)) + 1]]

\* the list a set of texts iterates in under a hash seed: an order of its
\* elements that the seed decides (here a rotation, backwards for odd seeds)
set_iter(S, seed) ==
  IF seed % 2 = 1 THEN Reverse(Rotate(ascending(S), seed \div 2))
  ELSE Rotate(ascending(S), seed \div 2)

\* sorted_set that sorts the other way round, largest first
unsorted_set(S, seed) == Reverse(sorted(set_iter(S, seed)))

\* sorted_set with the sort left out: the set in the order it iterates in
hash_ordered_set(S, seed) == set_iter(S, seed)

\* sorted(S) of a set of texts, in a process of hash seed seed: the sort of
\* the list the set iterates in
sorted_set(S, seed) == sorted(set_iter(S, seed))

(***************************************************************************)
(* IGP generation.                                                         *)
(***************************************************************************)
\* igp.get("process_name", "RIPNG")
ProcessName(igp) ==
  IF igp.process_name = Absent THEN "RIPNG" ELSE igp.process_name

igp_global(asdata, router_id) ==
  LET igp == asdata.igp
      t == igp.type
  IN IF t = "none" THEN [err |-> NoError, lines |-> <<Line("!")>>]
     ELSE IF t = "ospfv3" THEN
       [err |-> NoError,
        lines |-> <<LineN("ipv6 router ospf {}", igp.process_id),
                    LineS(" router-id {}", router_id),
                    Line("exit"), Line("!")>>]
     ELSE IF t = "ripng" THEN
       [err |-> NoError,
        lines |-> <<LineS("ipv6 router rip {}", ProcessName(igp)),
                    Line("exit"), Line("!")>>]
     ELSE [err |-> ErrIgp, lines |-> <<>>]

igp_iface_lines(asdata, link) ==
  LET igp == asdata.igp
      t == igp.type
  IN IF t = "none" THEN [err |-> NoError, lines |-> <<>>]
     ELSE IF t = "ospfv3" THEN
       [err |-> NoError,
        lines |-> <<LineNM(" ipv6 ospf {} area {}", igp.process_id, igp.area)>>
                  \o (IF link.has_cost
                      THEN <<LineN(" ipv6 ospf cost {}", link.ospf_cost)>>
                      ELSE <<>>)]
     ELSE IF t = "ripng" THEN
       [err |-> NoError,
        lines |-> <<LineS(" ipv6 rip {} enable", ProcessName(igp))>>]
     ELSE [err |-> ErrIgp, lines |-> <<>>]

(***************************************************************************)
(* BGP helpers.                                                            *)
(***************************************************************************)
\* has_ebgp_neighbor that looks at the first endpoint only
has_ebgp_first_endpoint(doc, rname) ==
  \E i \in 1..Len(doc.links) :
    /\ doc.links[i].type = "inter_as"
    /\ doc.links[i].endpoints[1].router = rname

has_ebgp_neighbor(doc, rname) ==
  \E i \in 1..Len(doc.links) :
    /\ doc.links[i].type = "inter_as"
    /\ \/ doc.links[i].endpoints[1].router = rname
       \/ doc.links[i].endpoints[2].router = rname

\* the set of the subnet texts of the intra_as links whose "as" is asn
intra_as_prefixes_for_as(doc, asn) ==
  {doc.links[i].subnet_v6 : i \in
     {j \in 1..Len(doc.links) :
        /\ doc.links[j].type = "intra_as"
        /\ doc.links[j].as = asn
        /\ doc.links[j].subnet_v6 # <<>>}}

\* the list of the loopbacks of the routers of AS asn, in list order
loopbacks_for_as(doc, lbs, asn) ==
  LET rs == AsData(doc, asn).routers
  IN [i \in 1..Len(rs) |-> lbs[rs[i]]]

\* link.get("relationship", "peer")
RelationshipOf(link) ==
  IF link.relationship = Absent THEN "peer" ELSE link.relationship

\* peer router -> relationship, over the inter_as links of rname in
\* adjacency order (a later link to the same peer overwrites)
RECURSIVE RelFrom(_, _, _, _)
RelFrom(links, rname, i, rel) ==
  IF i > Len(links) THEN rel
  ELSE IF links[i].type # "inter_as" THEN RelFrom(links, rname, i + 1, rel)
  ELSE RelFrom(links, rname, i + 1,
               Put(rel, other_endpoint(links[i], rname).ep.router,
                   RelationshipOf(links[i])))

get_interas_relationship_for_router(doc, rname, a) ==
  RelFrom(AdjOf(a, rname), rname, 1, EmptyDict)

\* the (out, in) route-maps of a relationship
RouteMapsFor(rel) ==
  IF rel = "client" THEN <<"RM-OUT-CLIENT", "RM-IN-CLIENT">>
  ELSE IF rel = "provider" THEN <<"RM-OUT-PEERPROV", "RM-IN-PROV">>
  ELSE <<"RM-OUT-PEERPROV", "RM-IN-PEER">>

(***************************************************************************)
(* BGP and policies.                                                       *)
(***************************************************************************)
\* intent.get("bgp", {}).get("required", False)
BgpRequired(doc) == doc.bgp.required

\* bgp.get("ibgp", {}).get("mode", "full_mesh")
IbgpMode(doc) == IF doc.bgp.mode = Absent THEN "full_mesh" ELSE doc.bgp.mode

\* IbgpPeers without the test of the mode
IbgpPeersAnyMode(doc, rname, lbs, my_asn) ==
  LET rs == SelectSeq(AsData(doc, my_asn).routers, LAMBDA p : p # rname)
  IN [i \in 1..Len(rs) |-> ip_no_prefix(lbs[rs[i]])]

\* ibgp_peers: the loopback (without length) of every other router of the
\* router list of the AS, in list order
IbgpPeers(doc, rname, lbs, my_asn) ==
  IF IbgpMode(doc) = "full_mesh"
  THEN LET rs == SelectSeq(AsData(doc, my_asn).routers, LAMBDA p : p # rname)
       IN [i \in 1..Len(rs) |-> ip_no_prefix(lbs[rs[i]])]
  ELSE <<>>

\* ebgp_peers: (peer_ip, peer_asn, peer_router) of the inter_as links of
\* rname in adjacency order, a peer_ip already listed being skipped
RECURSIVE EbgpPeersFrom(_, _, _, _, _, _)
EbgpPeersFrom(doc, rname, ips, links, i, acc) ==
  IF i > Len(links) THEN acc
  ELSE IF links[i].type # "inter_as"
    THEN EbgpPeersFrom(doc, rname, ips, links, i + 1, acc)
  ELSE LET other == other_endpoint(links[i], rname).ep
           peer_router == other.router
           peer_asn == RouterRec(doc, peer_router).as
           peer_ip == ip_no_prefix(ips[<<peer_router, other.interface>>])
       IN IF \E j \in 1..Len(acc) : acc[j].peer_ip = peer_ip
          THEN EbgpPeersFrom(doc, rname, ips, links, i + 1, acc)
          ELSE EbgpPeersFrom(doc, rname, ips, links, i + 1,
                 Append(acc, [peer_ip |-> peer_ip, peer_asn |-> peer_asn,
                              peer_router |-> peer_router]))

\* EbgpPeers without the skip of a peer_ip already listed
EbgpPeersNoDedup(doc, rname, ips, a) ==
  LET links == SelectSeq(AdjOf(a, rname), LAMBDA l : l.type = "inter_as")
  IN [i \in 1..Len(links) |->
        LET other == other_endpoint(links[i], rname).ep
        IN [peer_ip |-> ip_no_prefix(ips[<<other.router, other.interface>>]),
            peer_asn |-> RouterRec(doc, other.router).as,
            peer_router |-> other.router]]

EbgpPeers(doc, rname, ips, a) ==
  EbgpPeersFrom(doc, rname, ips, AdjOf(a, rname), 1, <<>>)

\* the lists of the list xss, concatenated
RECURSIVE Flatten(_)
Flatten(xss) ==
  IF xss = <<>> THEN <<>> ELSE Head(xss) \o Flatten(Tail(xss))

\* one "  network {}" line per prefix of the list pfxs
NetworksOf(pfxs) == [i \in 1..Len(pfxs) |-> LineA("  network {}", pfxs[i])]

\* the lines of the SELF prefix-list: the baseline, then one permit per
\* prefix of the list pfxs, numbered from 10 by 10
PrefixListSelf(pfxs) ==
  <<Line("ipv6 prefix-list PL-SELF seq 5 deny ::/0")>>
  \o [i \in 1..Len(pfxs) |->
        LineAN("ipv6 prefix-list PL-SELF seq {} permit {}", pfxs[i], 10 * i)]
  \o <<Line("!")>>

\* the SELF prefixes: every loopback of the AS and every intra_as subnet
SelfPfx(doc, lbs, my_asn) ==
  {loopbacks_for_as(doc, lbs, my_asn)[i] :
     i \in 1..Len(loopbacks_for_as(doc, lbs, my_asn))}
  \cup intra_as_prefixes_for_as(doc, my_asn)

\* the route-map declarations of a border router of AS my_asn
RouteMapLines(my_asn) ==
  <<Line("route-map RM-IN-CLIENT permit 10"),
    LineN(" set community {}:100 additive", my_asn),
    Line(" set local-preference 200"),
    Line("!"),
    Line("route-map RM-IN-PEER permit 10"),
    LineN(" set community {}:200 additive", my_asn),
    Line(" set local-preference 150"),
    Line("!"),
    Line("route-map RM-IN-PROV permit 10"),
    LineN(" set community {}:300 additive", my_asn),
    Line(" set local-preference 50"),
    Line("!"),
    Line("route-map RM-OUT-PEERPROV permit 10"),
    Line(" match ipv6 address prefix-list PL-SELF"),
    LineN(" set community {}:50 additive", my_asn),
    Line("!"),
    Line("route-map RM-OUT-PEERPROV permit 20"),
    Line(" match community COMM-CLIENT"),
    Line("!"),
    Line("route-map RM-OUT-PEERPROV deny 100"),
    Line("!"),
    Line("route-map RM-OUT-CLIENT permit 10"),
    Line("!"),
    LineN("router bgp {}", my_asn),
    Line(" address-family ipv6 unicast")>>

\* the two route-map attachments of one exterior peer
AttachLines(relmap, peer) ==
  LET rel == IF peer.peer_router \in DOMAIN relmap
             THEN relmap[peer.peer_router] ELSE "peer"
      maps == RouteMapsFor(rel)
  IN <<[LineA("  neighbor {} route-map {} out", peer.peer_ip)
          EXCEPT !.s = maps[1]],
       [LineA("  neighbor {} route-map {} in", peer.peer_ip)
          EXCEPT !.s = maps[2]]>>

\* NetworkLines with the loopbacks of the AS put before its intra-AS subnets
NetworkLinesLoopbacksFirst(doc, rname, lbs, a, my_asn, border, seed) ==
  LET inter == SelectSeq(AdjOf(a, rname), LAMBDA l : l.type = "inter_as")
  IN <<LineA("  network {}", lbs[rname])>>
     \o [i \in 1..Len(inter) |-> LineA("  network {}", inter[i].subnet_v6)]
     \o (IF border
         THEN NetworksOf(sorted(loopbacks_for_as(doc, lbs, my_asn)))
              \o NetworksOf(sorted_set(intra_as_prefixes_for_as(doc, my_asn), seed))
         ELSE <<>>)

\* the network statements of rname
NetworkLines(doc, rname, lbs, a, my_asn, border, seed) ==
  LET inter == SelectSeq(AdjOf(a, rname), LAMBDA link : link.type = "inter_as")
  IN <<LineA("  network {}", lbs[rname])>>
     \o [i \in 1..Len(inter) |-> LineA("  network {}", inter[i].subnet_v6)]
     \o (IF border
         THEN NetworksOf(sorted_set(intra_as_prefixes_for_as(doc, my_asn), seed))
              \o NetworksOf(sorted(loopbacks_for_as(doc, lbs, my_asn)))
         ELSE <<>>)

\* the community-list, prefix-list, route-map declarations and the
\* per-neighbor attachments of a border router
PolicyLines(doc, rname, lbs, a, my_asn, ebgp_peers, seed) ==
  <<Line(" exit-address-family"), Line("!"),
    LineN("ip community-list standard COMM-SELF permit {}:50", my_asn),
    LineN("ip community-list standard COMM-CLIENT permit {}:100", my_asn),
    Line("!")>>
  \o PrefixListSelf(sorted_set(SelfPfx(doc, lbs, my_asn), seed))
  \o RouteMapLines(my_asn)
  \o Flatten([i \in 1..Len(ebgp_peers) |->
                AttachLines(get_interas_relationship_for_router(doc, rname, a),
                            ebgp_peers[i])])

build_bgp(doc, rname, lbs, ips, a, seed) ==
  IF ~BgpRequired(doc) THEN <<>>
  ELSE
    LET my_asn == RouterRec(doc, rname).as
        rid == RouterRec(doc, rname).router_id
        ibgp_peers == IbgpPeers(doc, rname, lbs, my_asn)
        ebgp_peers == EbgpPeers(doc, rname, ips, a)
        border == has_ebgp_neighbor(doc, rname)
    IN <<LineN("router bgp {}", my_asn),
         LineS(" bgp router-id {}", rid),
         Line(" bgp log-neighbor-changes"),
         Line(" no bgp default ipv4-unicast")>>
       \o Flatten([i \in 1..Len(ibgp_peers) |->
            <<LineAN(" neighbor {} remote-as {}", ibgp_peers[i], my_asn),
              LineA(" neighbor {} update-source Loopback0", ibgp_peers[i])>>])
       \o [i \in 1..Len(ebgp_peers) |->
            LineAN(" neighbor {} remote-as {}", ebgp_peers[i].peer_ip,
                   ebgp_peers[i].peer_asn)]
       \o <<Line(" !"), Line(" address-family ipv6 unicast")>>
       \o Flatten([i \in 1..Len(ibgp_peers) |->
            <<LineA("  neighbor {} activate", ibgp_peers[i])>>
            \o (IF border
                THEN <<LineA("  neighbor {} next-hop-self", ibgp_peers[i])>>
                ELSE <<>>)
            \o <<LineA("  neighbor {} send-community", ibgp_peers[i])>>])
       \o Flatten([i \in 1..Len(ebgp_peers) |->
            <<LineA("  neighbor {} activate", ebgp_peers[i].peer_ip),
              LineA("  neighbor {} send-community", ebgp_peers[i].peer_ip)>>])
       \o NetworkLines(doc, rname, lbs, a, my_asn, border, seed)
       \o (IF border
           THEN PolicyLines(doc, rname, lbs, a, my_asn, ebgp_peers, seed)
           ELSE <<>>)
       \o <<Line(" exit-address-family"), Line("exit"), Line("!")>>

(***************************************************************************)
(* One router's configuration.                                             *)
(***************************************************************************)
\* the pseudo-link {"type": "intra_as"} the loopback's IGP stanza is asked for
LoopbackLink ==
  [name |-> Absent, type |-> "intra_as", as |-> 0, subnet_v6 |-> <<>>,
   endpoints |-> <<>>, relationship |-> Absent, has_cost |-> FALSE,
   ospf_cost |-> 0]

\* InterfaceBlock that leaves an interface without IGP stanza as it is,
\* without ' no shutdown'
InterfaceBlockNoEnable(asdata, rname, ips, link) ==
  LET my_ep == get_endpoint_for_router(link, rname)
      iface == my_ep.ep.interface
      igp == IF link.type = "intra_as" THEN igp_iface_lines(asdata, link)
             ELSE [err |-> NoError, lines |-> <<>>]
  IN IF ~my_ep.ok THEN [err |-> ErrNotInLink, lines |-> <<>>]
     ELSE IF igp.err # NoError THEN [err |-> igp.err, lines |-> <<>>]
     ELSE [err |-> NoError,
           lines |-> <<LineS("interface {}", iface),
                       Line(" no ip address"),
                       Line(" ipv6 enable"),
                       LineA(" ipv6 address {}", ips[<<rname, iface>>])>>
                     \o igp.lines
                     \o (IF igp.lines = <<>> THEN <<>>
                         ELSE <<Line(" no shutdown")>>)
                     \o <<Line("exit"), Line("!")>>]

\* InterfaceBlock that asks for the IGP stanza on every link, inter-AS too
InterfaceBlockIgpOnEveryLink(asdata, rname, ips, link) ==
  LET my_ep == get_endpoint_for_router(link, rname)
      iface == my_ep.ep.interface
      igp == igp_iface_lines(asdata, link)
  IN IF ~my_ep.ok THEN [err |-> ErrNotInLink, lines |-> <<>>]
     ELSE IF igp.err # NoError THEN [err |-> igp.err, lines |-> <<>>]
     ELSE [err |-> NoError,
           lines |-> <<LineS("interface {}", iface),
                       Line(" no ip address"),
                       Line(" ipv6 enable"),
                       LineA(" ipv6 address {}", ips[<<rname, iface>>])>>
                     \o igp.lines
                     \o <<Line(" no shutdown"), Line("exit"), Line("!")>>]

\* the interface block of one link of rname: [err, lines]
InterfaceBlock(asdata, rname, ips, link) ==
  LET my_ep == get_endpoint_for_router(link, rname)
      iface == my_ep.ep.interface
      igp == IF link.type = "intra_as" THEN igp_iface_lines(asdata, link)
             ELSE [err |-> NoError, lines |-> <<>>]
  IN IF ~my_ep.ok THEN [err |-> ErrNotInLink, lines |-> <<>>]
     ELSE IF igp.err # NoError THEN [err |-> igp.err, lines |-> <<>>]
     ELSE [err |-> NoError,
           lines |-> <<LineS("interface {}", iface),
                       Line(" no ip address"),
                       Line(" ipv6 enable"),
                       LineA(" ipv6 address {}", ips[<<rname, iface>>])>>
                     \o igp.lines
                     \o <<Line(" no shutdown"), Line("exit"), Line("!")>>]

\* the interface blocks of the links of rname from index i on, stopping at
\* the first error: [err, lines]
RECURSIVE InterfaceBlocks(_, _, _, _, _)
InterfaceBlocks(asdata, rname, ips, links, i) ==
  IF i > Len(links) THEN [err |-> NoError, lines |-> <<>>]
  ELSE LET b == InterfaceBlock(asdata, rname, ips, links[i])
           rest == InterfaceBlocks(asdata, rname, ips, links, i + 1)
       IN IF b.err # NoError THEN b
          ELSE IF rest.err # NoError THEN rest
          ELSE [err |-> NoError, lines |-> b.lines \o rest.lines]

\* [err, cfg]: cfg is the list of the lines of the text
build_router_config(doc, rname, lbs, ips, a, seed) ==
  LET rec == RouterRec(doc, rname)
      asdata == AsData(doc, rec.as)
      lo == igp_iface_lines(asdata, LoopbackLink)
      phys == InterfaceBlocks(asdata, rname, ips, AdjOf(a, rname), 1)
      glob == igp_global(asdata, rec.router_id)
  IN IF rname \notin DOMAIN lbs THEN [err |-> ErrKey, cfg |-> <<>>]
     ELSE IF lo.err # NoError THEN [err |-> lo.err, cfg |-> <<>>]
     ELSE IF phys.err # NoError THEN [err |-> phys.err, cfg |-> <<>>]
     ELSE IF glob.err # NoError THEN [err |-> glob.err, cfg |-> <<>>]
     ELSE [err |-> NoError,
           cfg |-> <<Line("!"), LineS("hostname {}", rname), Line("!"),
                     Line("no ip domain-lookup"), Line("ipv6 unicast-routing"),
                     Line("!"),
                     Line("interface Loopback0"),
                     Line(" no ip address"),
                     LineA(" ipv6 address {}", lbs[rname])>>
                   \o lo.lines
                   \o <<Line(" no shutdown"), Line("exit"), Line("!")>>
                   \o phys.lines
                   \o glob.lines
                   \o build_bgp(doc, rname, lbs, ips, a, seed)
                   \o <<Line("!")>>]

(***************************************************************************)
(* The intent documents the model is run on.                               *)
(***************************************************************************)
\* "2001:100::/64", "2001:100::/48", "2001:200::/64"
Pool100 == <<"2","0","0","1",":","1","0","0",":",":","/","6","4">>
Pool100Len48 == <<"2","0","0","1",":","1","0","0",":",":","/","4","8">>
Pool200 == <<"2","0","0","1",":","2","0","0",":",":","/","6","4">>
\* "2001:100:1::/64", "2001:100:a::/64", "2001:100:b::/64", "2001:100:2::/48"
Net100_1 == <<"2","0","0","1",":","1","0","0",":","1",":",":","/","6","4">>
Net100_a == <<"2","0","0","1",":","1","0","0",":","a",":",":","/","6","4">>
Net100_b == <<"2","0","0","1",":","1","0","0",":","b",":",":","/","6","4">>
Net100Len48 == <<"2","0","0","1",":","1","0","0",":","2",":",":","/","4","8">>
\* "2001:23:1::/64", "2001:23:2::/64", "2001:13::/64", "2001:13:1::/64",
\* "2001:13:2::/64"
Net23_1 == <<"2","0","0","1",":","2","3",":","1",":",":","/","6","4">>
Net23_2 == <<"2","0","0","1",":","2","3",":","2",":",":","/","6","4">>
Net13 == <<"2","0","0","1",":","1","3",":",":","/","6","4">>
Net13_1 == <<"2","0","0","1",":","1","3",":","1",":",":","/","6","4">>
Net13_2 == <<"2","0","0","1",":","1","3",":","2",":",":","/","6","4">>

Ep(r, i) == [router |-> r, interface |-> i]

MkLink(name, type, asn, subnet, eps, rel) ==
  [name |-> name, type |-> type, as |-> asn, subnet_v6 |-> subnet,
   endpoints |-> eps, relationship |-> rel, has_cost |-> FALSE, ospf_cost |-> 0]

WithCost(link, cost) == [link EXCEPT !.has_cost = TRUE, !.ospf_cost = cost]

\* well-formed links: two intra-AS links of AS 100, and inter-AS links from
\* R2 and R1 to R3, two of them parallel on one subnet
LinkIntraA ==
  WithCost(MkLink("R1-R2", "intra_as", 100, Net100_1,
                  <<Ep("R1", "Gi1/0"), Ep("R2", "Gi1/0")>>, Absent), 5)
LinkIntraB ==
  MkLink("R2-R1", "intra_as", 100, Net100_a,
         <<Ep("R2", "Gi2/0"), Ep("R1", "Gi2/0")>>, Absent)
LinkProvider ==
  WithCost(MkLink("R2-R3", "inter_as", 0, Net23_1,
                  <<Ep("R2", "Gi3/0"), Ep("R3", "Gi1/0")>>, "provider"), 7)
LinkClient ==
  MkLink("R3-R2", "inter_as", 0, Net23_2,
         <<Ep("R3", "Gi2/0"), Ep("R2", "Gi4/0")>>, "client")
LinkParallel ==
  MkLink("R2-R3-bis", "inter_as", 0, Net23_1,
         <<Ep("R2", "Gi5/0"), Ep("R3", "Gi3/0")>>, Absent)
LinkPeer ==
  MkLink("R1-R3", "inter_as", 0, Net13,
         <<Ep("R1", "Gi3/0"), Ep("R3", "Gi4/0")>>, "peer")
LinkSibling ==
  MkLink("R3-R1", "inter_as", 0, Net13_1,
         <<Ep("R3", "Gi5/0"), Ep("R1", "Gi4/0")>>, "sibling")

\* links the validation is about: a /48 subnet, no subnet, one endpoint, an
\* interface of LinkIntraA used again, and one interface as both endpoints
LinkLen48 ==
  MkLink("bad-len", "intra_as", 100, Net100Len48,
         <<Ep("R1", "Gi6/0"), Ep("R2", "Gi6/0")>>, Absent)
LinkNoSubnet ==
  MkLink("no-subnet", "intra_as", 100, <<>>,
         <<Ep("R1", "Gi7/0"), Ep("R2", "Gi7/0")>>, Absent)
LinkOneEndpoint ==
  MkLink("one-end", "intra_as", 100, Net100_b, <<Ep("R1", "Gi8/0")>>, Absent)
LinkReuse ==
  MkLink("reuse", "inter_as", 0, Net13_2,
         <<Ep("R1", "Gi1/0"), Ep("R3", "Gi6/0")>>, "peer")
LinkSelf ==
  MkLink("self", "intra_as", 100, Net100_b,
         <<Ep("R1", "Gi9/0"), Ep("R1", "Gi9/0")>>, Absent)

\* an inter-AS link from R1 to R3 on the subnet of LinkProvider, R1 at the
\* endpoint position R2 has there
LinkShared ==
  MkLink("R1-R3-shared", "inter_as", 0, Net23_1,
         <<Ep("R1", "Gi5/0"), Ep("R3", "Gi7/0")>>, "client")

GoodLinks ==
  {LinkIntraA, LinkIntraB, LinkProvider, LinkClient, LinkParallel, LinkPeer,
   LinkSibling}
CheckedLinks ==
  {LinkIntraA, LinkProvider, LinkLen48, LinkNoSubnet, LinkOneEndpoint,
   LinkReuse, LinkSelf}

\* the lists of at most n elements of S
SeqsUpTo(S, n) == UNION {[1..k -> S] : k \in 0..n}
\* the lists of at most n different elements of S
ListsOf(S, n) ==
  {xs \in SeqsUpTo(S, n) :
     \A i \in 1..Len(xs) : \A j \in 1..Len(xs) : i # j => xs[i] # xs[j]}

Igp(type) ==
  [type |-> type, process_id |-> 1, area |-> 0, process_name |-> Absent]

MkAs(asn, pool, routers, igp) ==
  [asn |-> asn, loopbacks |-> pool, routers |-> routers, igp |-> igp]

RoutersOfIntent ==
  <<[name |-> "R1", as |-> 100, router_id |-> "1.1.1.1"],
    [name |-> "R2", as |-> 100, router_id |-> "2.2.2.2"],
    [name |-> "R3", as |-> 200, router_id |-> "3.3.3.3"]>>

MkIntent(as100, as200, links, required, mode) ==
  [ases |-> <<as100, as200>>, routers |-> RoutersOfIntent, links |-> links,
   bgp |-> [required |-> required, mode |-> mode]]

\* (IGP of AS 100, IGP of AS 200, bgp.required, bgp.ibgp.mode)
Settings ==
  {<<"ospfv3", "ripng", TRUE, "full_mesh">>,
   <<"none", "none", TRUE, Absent>>,
   <<"ripng", "isis", TRUE, "full_mesh">>,
   <<"isis", "none", TRUE, "full_mesh">>,
   <<"ospfv3", "none", TRUE, "route_reflector">>,
   <<"none", "ripng", FALSE, "full_mesh">>,
   <<"ospfv3", "isis", TRUE, Absent>>}

\* well-formed topologies under every setting
GenerationDocs ==
  {MkIntent(MkAs(100, Pool100, <<"R1", "R2">>, Igp(st[1])),
            MkAs(200, Pool200, <<"R3">>, Igp(st[2])),
            links, st[3], st[4]) :
     st \in Settings, links \in ListsOf(GoodLinks, MaxLinks)}

\* link lists with the links the validation is about
LinkDocs ==
  {MkIntent(MkAs(100, Pool100, <<"R1", "R2">>, Igp("ospfv3")),
            MkAs(200, Pool200, <<"R3">>, Igp("ripng")),
            links, TRUE, "full_mesh") :
     links \in ListsOf(CheckedLinks, MaxLinks)}

\* every router list of AS 100 (empty, partial, with a name repeated), with
\* a good or a /48 pool
LoopbackDocs ==
  {MkIntent(MkAs(100, pool, rs, Igp("ospfv3")),
            MkAs(200, Pool200, rs3, Igp("ripng")),
            <<LinkIntraA, LinkProvider>>, TRUE, "full_mesh") :
     pool \in {Pool100, Pool100Len48},
     rs \in SeqsUpTo({"R1", "R2"}, MaxAsRouters),
     rs3 \in {<<>>, <<"R3">>}}

\* topologies in which R3 has inter-AS links to R1 and to R2 on one subnet
SharedSubnetDocs ==
  {MkIntent(MkAs(100, Pool100, <<"R1", "R2">>, Igp("ospfv3")),
            MkAs(200, Pool200, <<"R3">>, Igp("ripng")),
            links, TRUE, "full_mesh") :
     links \in ListsOf({LinkShared, LinkProvider, LinkIntraA}, MaxLinks)}

Docs == GenerationDocs \cup LinkDocs \cup LoopbackDocs \cup SharedSubnetDocs

NoIntent == MkIntent(<<>>, <<>>, <<>>, FALSE, Absent)

(***************************************************************************)
(* main(): the state of one run.                                           *)
(***************************************************************************)
VARIABLES
  pc,        \* where main() is: start, loaded, loopbacks, link_ips,
             \* generating, done, aborted
  intent,    \* the parsed intent document
  loopbacks, \* router -> loopback "/128" text
  link_ips,  \* (router, interface) -> address "/64" text
  adj,       \* router -> list of its links
  idx,       \* index in intent["routers"] of the next router to generate
  files,     \* router -> the lines of <router>.cfg, for the files written
  error,     \* what the run aborted with
  outputs    \* the files of the run before this one on this document, as
             \* a list: empty in a first run, of one element after

vars == <<pc, intent, loopbacks, link_ips, adj, idx, files, error, outputs>>

Init ==
  /\ pc = "start"
  /\ intent = NoIntent
  /\ loopbacks = EmptyDict
  /\ link_ips = EmptyDict
  /\ adj = EmptyDict
  /\ idx = 1
  /\ files = EmptyDict
  /\ error = NoError
  /\ outputs = <<>>

\* ensure(os.path.isfile(intent_path), ...) fails
IntentMissing ==
  /\ pc = "start"
  /\ pc' = "aborted"
  /\ error' = ErrNoFile
  /\ UNCHANGED <<intent, loopbacks, link_ips, adj, idx, files>>
  /\ UNCHANGED outputs

\* intent = json.load(f)
LoadIntent ==
  /\ pc = "start"
  /\ \E d \in Docs : intent' = d
  /\ pc' = "loaded"
  /\ UNCHANGED <<loopbacks, link_ips, adj, idx, files, error>>
  /\ UNCHANGED outputs

\* loopbacks = allocate_loopbacks(intent)
AllocateLoopbacks ==
  /\ pc = "loaded"
  /\ \E r \in {allocate_loopbacks(intent)} :
        /\ pc' = IF r.err = NoError THEN "loopbacks" ELSE "aborted"
        /\ error' = r.err
        /\ loopbacks' = IF r.err = NoError THEN r.out ELSE loopbacks
  /\ UNCHANGED <<intent, link_ips, adj, idx, files>>
  /\ UNCHANGED outputs

\* link_ips = allocate_link_ips(intent)
AllocateLinkIps ==
  /\ pc = "loopbacks"
  /\ \E r \in {allocate_link_ips(intent)} :
        /\ pc' = IF r.err = NoError THEN "link_ips" ELSE "aborted"
        /\ error' = r.err
        /\ link_ips' = IF r.err = NoError THEN r.out ELSE link_ips
  /\ UNCHANGED <<intent, loopbacks, adj, idx, files>>
  /\ UNCHANGED outputs

\* adj = adjacency(intent); os.makedirs(out_dir, exist_ok=True)
BuildAdjacency ==
  /\ pc = "link_ips"
  /\ adj' = adjacency(intent)
  /\ pc' = "generating"
  /\ UNCHANGED <<intent, loopbacks, link_ips, idx, files, error>>
  /\ UNCHANGED outputs

\* one turn of the loop over intent["routers"]: build the configuration of
\* the next router and write its file; the order in which the sets iterate
\* is any that a hash seed gives
WriteConfig ==
  /\ pc = "generating"
  /\ idx <= Len(intent.routers)
  /\ \E seed \in HashSeeds :
     \E r \in {build_router_config(intent, intent.routers[idx].name,
                                   loopbacks, link_ips, adj, seed)} :
        /\ pc' = IF r.err = NoError THEN "generating" ELSE "aborted"
        /\ error' = r.err
        /\ files' = IF r.err = NoError
                    THEN Put(files, intent.routers[idx].name, r.cfg)
                    ELSE files
        /\ idx' = IF r.err = NoError THEN idx + 1 ELSE idx
  /\ UNCHANGED <<intent, loopbacks, link_ips, adj>>
  /\ UNCHANGED outputs

\* print("[OK] Generated configs ...")
Finish ==
  /\ pc = "generating"
  /\ idx > Len(intent.routers)
  /\ pc' = "done"
  /\ UNCHANGED <<intent, loopbacks, link_ips, adj, idx, files, error>>
  /\ UNCHANGED outputs

Next ==
  \/ IntentMissing
  \/ LoadIntent
  \/ AllocateLoopbacks
  \/ AllocateLinkIps
  \/ BuildAdjacency
  \/ WriteConfig
  \/ Finish

Spec == Init /\ [][Next]_vars

\* the compiler is started again on the same intent document after a run
\* that completed, whose files are kept for comparison
RunAgain ==
  /\ pc = "done"
  /\ outputs' = <<files>>
  /\ pc' = "loaded"
  /\ loopbacks' = EmptyDict
  /\ link_ips' = EmptyDict
  /\ adj' = EmptyDict
  /\ idx' = 1
  /\ files' = EmptyDict
  /\ error' = NoError
  /\ UNCHANGED intent

NextRuns ==
  \/ Next
  \/ RunAgain

\* runs of the compiler, one after the other, on one intent document
SpecRuns == Init /\ [][NextRuns]_vars

(***************************************************************************)
(* Reading the run and the files written, for the properties below.        *)
(***************************************************************************)
\* the run got past allocate_loopbacks / allocate_link_ips without abort
LoopbacksAllocated == pc \in {"loopbacks", "link_ips", "generating", "done"}
LinkIpsAllocated == pc \in {"link_ips", "generating", "done"}

\* the routers whose file has been written
Written == DOMAIN files

\* the indices of the lines of cfg whose template is in ks, ascending
LinesAt(cfg, ks) == {i \in 1..Len(cfg) : cfg[i].k \in ks}

\* the lines of cfg whose template is in ks, in file order
LinesOf(cfg, ks) == SelectSeq(cfg, LAMBDA l : l.k \in ks)

\* the AS number the intent gives router r, and the router list of that AS
AsOf(r) == RouterRec(intent, r).as
AsRouters(r) == AsData(intent, AsOf(r)).routers

\* the inter-AS links of the document that have r as an endpoint, in
\* document order
IsEndpoint(link, r) ==
  \E j \in 1..Len(link.endpoints) : link.endpoints[j].router = r
InterAsLinksOf(r) ==
  SelectSeq(intent.links, LAMBDA l : l.type = "inter_as" /\ IsEndpoint(l, r))
IsBorder(r) == InterAsLinksOf(r) # <<>>

\* the endpoint of link on the far side from r
Remote(link, r) ==
  IF link.endpoints[1].router = r THEN link.endpoints[2] ELSE link.endpoints[1]
\* the address, without length, r reaches over link
RemoteIp(link, r) ==
  ip_no_prefix(link_ips[<<Remote(link, r).router, Remote(link, r).interface>>])

(***************************************************************************)
(* C1.  All-or-nothing validation: when the run aborts with a validation   *)
(* failure, no router's configuration file has been written.               *)
(* As stated by the claim; the code writes the files of the routers that   *)
(* precede the one whose generation fails.                                 *)
(***************************************************************************)
C1_AllOrNothing ==
  (pc = "aborted" /\ error \in ValidationErrors) => Written = {}

(***************************************************************************)
(* C2.  On a router with BGP enabled, the route-map pair attached to an    *)
(* exterior neighbor is the one of the relationship declared on the        *)
(* inter-AS link through which the neighbor's address is reached: client   *)
(* -> (RM-OUT-CLIENT, RM-IN-CLIENT), provider -> (RM-OUT-PEERPROV,          *)
(* RM-IN-PROV), anything else or none -> (RM-OUT-PEERPROV, RM-IN-PEER),     *)
(* also with several inter-AS links to one remote router.                  *)
(* As stated by the claim, for the addresses reached through one link.     *)
(***************************************************************************)
C2_MapsOfRelationship(link) ==
  CASE link.relationship = "client" -> <<"RM-OUT-CLIENT", "RM-IN-CLIENT">>
    [] link.relationship = "provider" -> <<"RM-OUT-PEERPROV", "RM-IN-PROV">>
    [] OTHER -> <<"RM-OUT-PEERPROV", "RM-IN-PEER">>

\* the route-map names file cfg attaches to neighbor ip in direction k
C2_Attached(cfg, ip, k) ==
  {cfg[i].s : i \in {j \in LinesAt(cfg, {k}) : cfg[j].a = ip}}

C2_RouteMapsFollowLink ==
  \A r \in Written :
    BgpRequired(intent) =>
      \A i \in 1..Len(InterAsLinksOf(r)) :
        LET link == InterAsLinksOf(r)[i]
            ip == RemoteIp(link, r)
            alone == \A j \in 1..Len(InterAsLinksOf(r)) :
                       j # i => RemoteIp(InterAsLinksOf(r)[j], r) # ip
        IN alone =>
             /\ C2_Attached(files[r], ip, "  neighbor {} route-map {} out")
                  = {C2_MapsOfRelationship(link)[1]}
             /\ C2_Attached(files[r], ip, "  neighbor {} route-map {} in")
                  = {C2_MapsOfRelationship(link)[2]}

(***************************************************************************)
(* C3.  In the table of an accepted document every link with subnet base   *)
(* S and endpoints [e0, e1] has e0 at S+1/64 and e1 at S+2/64 (so that no  *)
(* (router, interface) pair was given two addresses).                      *)
(* As stated by the claim; a link whose two endpoints are the same         *)
(* (router, interface) is accepted and its second address replaces the     *)
(* first.                                                                  *)
(***************************************************************************)
C3_Address(link, k) ==
  WithPrefix(AddrAdd(IPv6Network(link.subnet_v6).network_address, k), 64)

C3_LinkAddresses ==
  LinkIpsAllocated =>
    \A i \in 1..Len(intent.links) :
      LET link == intent.links[i]
          e0 == link.endpoints[1]
          e1 == link.endpoints[2]
      IN /\ link_ips[<<e0.router, e0.interface>>] = C3_Address(link, 1)
         /\ link_ips[<<e1.router, e1.interface>>] = C3_Address(link, 2)

(***************************************************************************)
(* C6.  In the table of an accepted document every AS with pool base B and *)
(* router list [r1..rn] has loopback(ri) = B+i/128 for every i, its n      *)
(* loopbacks pairwise distinct.                                            *)
(* As stated by the claim; a router list that names a router twice is      *)
(* accepted and the router keeps the address of its last position.         *)
(***************************************************************************)
C6_Address(asdata, i) ==
  WithPrefix(AddrAdd(IPv6Network(asdata.loopbacks).network_address, i), 128)

C6_LoopbackAddresses ==
  LoopbacksAllocated =>
    \A x \in 1..Len(intent.ases) :
      LET asdata == intent.ases[x]
      IN \A i \in 1..Len(asdata.routers) :
           /\ loopbacks[asdata.routers[i]] = C6_Address(asdata, i)
           /\ \A j \in 1..Len(asdata.routers) :
                i # j => loopbacks[asdata.routers[i]] # loopbacks[asdata.routers[j]]

(***************************************************************************)
(* Templates of the lines the properties below look for.                   *)
(***************************************************************************)
KRemoteAs == " neighbor {} remote-as {}"
KUpdateSource == " neighbor {} update-source Loopback0"
KActivate == "  neighbor {} activate"
KNextHopSelf == "  neighbor {} next-hop-self"
KSendCommunity == "  neighbor {} send-community"
KNetwork == "  network {}"
KPlDeny == "ipv6 prefix-list PL-SELF seq 5 deny ::/0"
KPlPermit == "ipv6 prefix-list PL-SELF seq {} permit {}"
KAttachOut == "  neighbor {} route-map {} out"
KAttachIn == "  neighbor {} route-map {} in"
KCommunityLists ==
  {"ip community-list standard COMM-SELF permit {}:50",
   "ip community-list standard COMM-CLIENT permit {}:100"}
KPrefixLists == {KPlDeny, KPlPermit}
KRouteMaps ==
  {"route-map RM-IN-CLIENT permit 10", "route-map RM-IN-PEER permit 10",
   "route-map RM-IN-PROV permit 10", "route-map RM-OUT-PEERPROV permit 10",
   "route-map RM-OUT-PEERPROV permit 20", "route-map RM-OUT-PEERPROV deny 100",
   "route-map RM-OUT-CLIENT permit 10"}
KAttachments == {KAttachOut, KAttachIn}

\* the loopbacks of the routers of the AS of r, in router-list order
LoopbackList(r) ==
  [i \in 1..Len(AsRouters(r)) |-> loopbacks[AsRouters(r)[i]]]
LoopbackSet(r) == {LoopbackList(r)[i] : i \in 1..Len(AsRouters(r))}
\* the subnets of the intra-AS links that belong to the AS of r
IntraSubnets(r) ==
  {intent.links[i].subnet_v6 :
     i \in {j \in 1..Len(intent.links) :
              /\ intent.links[j].type = "intra_as"
              /\ intent.links[j].as = AsOf(r)}}

(***************************************************************************)
(* C4.  On a border router of AS X with BGP enabled the PL-SELF            *)
(* prefix-list is the baseline deny ::/0 entry (sequence 5, the lowest),   *)
(* then exactly one permit entry per element of (loopbacks of the routers  *)
(* of X's router list) UNION (subnets of the intra-AS links of X), in      *)
(* ascending order of the prefix text, the k-th permit numbered 10*k.      *)
(***************************************************************************)
C4_PrefixListSelf ==
  \A r \in Written :
    (BgpRequired(intent) /\ IsBorder(r)) =>
      LET cfg == files[r]
          self == LoopbackSet(r) \cup IntraSubnets(r)
          n == Cardinality(self)
          pl == LinesOf(cfg, KPrefixLists)
      IN /\ Len(pl) = n + 1
         /\ \E first \in 1..Len(cfg) :
              LinesAt(cfg, KPrefixLists) = first..(first + n)
         /\ pl[1].k = KPlDeny
         /\ \A k \in 1..n :
              /\ pl[k + 1].k = KPlPermit
              /\ pl[k + 1].n = 10 * k
              /\ pl[k + 1].a \in self
         /\ \A k \in 1..(n - 1) : StrLess(pl[k + 1].a, pl[k + 2].a)

\* a border router's file whose list holds two subnets around the two
\* loopbacks of the AS
C4_Witness ==
  \E r \in Written :
    /\ BgpRequired(intent) /\ IsBorder(r)
    /\ LET pl == LinesOf(files[r], KPrefixLists)
       IN /\ Len(pl) = 5
          /\ pl[2].a \in IntraSubnets(r)
          /\ pl[3].a \in LoopbackSet(r)
          /\ pl[5].a \in IntraSubnets(r)

(***************************************************************************)
(* C5.  As stated by the claim: a router is border iff an inter-AS link    *)
(* has it as an endpoint, every interior peer carries next-hop-self iff    *)
(* the router is border, and community-list, prefix-list, route-map        *)
(* declarations and route-map attachments appear in the router's output    *)
(* iff the router is border.                                               *)
(***************************************************************************)
C5_Has(cfg, ks) == LinesAt(cfg, ks) # {}

\* the addresses of the interior peers file cfg declares
C5_InteriorPeers(cfg) == {cfg[i].a : i \in LinesAt(cfg, {KUpdateSource})}

C5_Gates(r) ==
  LET cfg == files[r]
  IN /\ C5_Has(cfg, KCommunityLists) <=> IsBorder(r)
     /\ C5_Has(cfg, KPrefixLists) <=> IsBorder(r)
     /\ C5_Has(cfg, KRouteMaps) <=> IsBorder(r)
     /\ C5_Has(cfg, KAttachments) <=> IsBorder(r)
     /\ \A ip \in C5_InteriorPeers(cfg) :
          (\E i \in LinesAt(cfg, {KNextHopSelf}) : cfg[i].a = ip) <=> IsBorder(r)
     /\ \A i \in LinesAt(cfg, {KNextHopSelf}) : cfg[i].a \in C5_InteriorPeers(cfg)

C5_BorderGatesOutput == \A r \in Written : C5_Gates(r)

(***************************************************************************)
(* C5, amended.  For a router whose BGP block is generated (bgp.required   *)
(* is set) the above holds, and a non-border router closes the address     *)
(* family right after its network statement; when bgp.required is not set  *)
(* no router, border or not, emits any of these lines.                     *)
(***************************************************************************)
C5_BorderGatesBgpOutput ==
  \A r \in Written :
    LET cfg == files[r]
    IN IF BgpRequired(intent)
       THEN /\ C5_Gates(r)
            /\ ~IsBorder(r) =>
                 \E i \in LinesAt(cfg, {KNetwork}) :
                   /\ LinesAt(cfg, {KNetwork}) = {i}
                   /\ cfg[i + 1].k = " exit-address-family"
                   /\ LinesAt(cfg, {" exit-address-family"}) = {i + 1}
       ELSE ~C5_Has(cfg, KCommunityLists \cup KPrefixLists \cup KRouteMaps
                         \cup KAttachments \cup {KNextHopSelf})

\* a border and a non-border router of one AS, both written with BGP, each
\* with the other as interior peer
C5_Witness ==
  /\ BgpRequired(intent)
  /\ \E r \in Written : \E q \in Written :
       /\ IsBorder(r) /\ ~IsBorder(q)
       /\ C5_InteriorPeers(files[r]) # {}
       /\ C5_InteriorPeers(files[q]) # {}
       /\ C5_Has(files[r], KAttachments)

(***************************************************************************)
(* C7.  With BGP enabled the network statements of a router are, in this   *)
(* order: its own loopback; the subnet of every inter-AS link incident to  *)
(* it, in document order; then, on a border router only, the intra-AS      *)
(* subnets of its AS in ascending text order and the loopbacks of the      *)
(* routers of its AS in ascending order.  A non-border router has only the *)
(* first.                                                                  *)
(***************************************************************************)
C7_Count(xs, t) == Cardinality({i \in 1..Len(xs) : xs[i] = t})

C7_NetworkOrder ==
  \A r \in Written :
    BgpRequired(intent) =>
      LET nets == LinesOf(files[r], {KNetwork})
          inter == InterAsLinksOf(r)
          ni == Len(inter)
          ns == Cardinality(IntraSubnets(r))
          nl == Len(LoopbackList(r))
          lbs == [i \in 1..(Len(nets) - 1 - ni - ns) |-> nets[1 + ni + ns + i].a]
      IN /\ Len(nets) >= 1 + ni
         /\ nets[1].a = loopbacks[r]
         /\ \A i \in 1..ni : nets[1 + i].a = inter[i].subnet_v6
         /\ IF IsBorder(r)
            THEN /\ Len(nets) = 1 + ni + ns + nl
                 /\ \A i \in 1..ns : nets[1 + ni + i].a \in IntraSubnets(r)
                 /\ \A i \in 1..(ns - 1) :
                      StrLess(nets[1 + ni + i].a, nets[2 + ni + i].a)
                 /\ \A i \in 1..(nl - 1) : ~StrLess(lbs[i + 1], lbs[i])
                 /\ \A t \in LoopbackSet(r) :
                      C7_Count(lbs, t) = C7_Count(LoopbackList(r), t)
            ELSE Len(nets) = 1

\* a border router with two inter-AS links whose document order is not the
\* order of their texts, an intra-AS subnet and two loopbacks
C7_Witness ==
  \E r \in Written :
    /\ BgpRequired(intent)
    /\ Len(InterAsLinksOf(r)) = 2
    /\ StrLess(InterAsLinksOf(r)[2].subnet_v6, InterAsLinksOf(r)[1].subnet_v6)
    /\ IntraSubnets(r) # {}
    /\ Cardinality(LoopbackSet(r)) = 2
    /\ Len(LinesOf(files[r], {KNetwork})) = 6

(***************************************************************************)
(* C8.  With BGP enabled, for every inter-AS link incident to a router the *)
(* router declares a neighbor at the remote endpoint's allocated address   *)
(* (without length) with the remote router's AS number as remote-as, and   *)
(* declares each such address once (remote-as, activate, send-community),  *)
(* also when several links reach it.                                       *)
(***************************************************************************)
C8_Times(cfg, k, ip) == Cardinality({i \in LinesAt(cfg, {k}) : cfg[i].a = ip})

C9_Others(r) ==
  {AsRouters(r)[i] : i \in {j \in 1..Len(AsRouters(r)) : AsRouters(r)[j] # r}}

C9_FullMesh ==
  \A r \in Written :
    LET cfg == files[r]
        sourced == {cfg[i].a : i \in LinesAt(cfg, {KUpdateSource})}
        all == {ip_no_prefix(loopbacks[p]) : p \in DOMAIN loopbacks}
    IN IF intent.bgp.required /\ intent.bgp.mode \in {"full_mesh", Absent}
       THEN /\ sourced = {ip_no_prefix(loopbacks[p]) : p \in C9_Others(r)}
            /\ \A ip \in sourced :
                 \E i \in LinesAt(cfg, {KRemoteAs}) :
                   cfg[i].a = ip /\ cfg[i].n = AsOf(r)
            /\ \A i \in LinesAt(cfg, {KRemoteAs}) :
                 cfg[i].a \in all => cfg[i].a \in sourced /\ cfg[i].n = AsOf(r)
       ELSE /\ sourced = {}
            /\ \A i \in LinesAt(cfg, {KRemoteAs}) : cfg[i].a \notin all

\* two written routers of one AS, each declaring the other's loopback
C9_Witness ==
  /\ intent.bgp.required
  /\ \E r \in Written : \E q \in Written :
       /\ r # q /\ AsOf(r) = AsOf(q)
       /\ \E i \in LinesAt(files[r], {KUpdateSource}) :
            files[r][i].a = ip_no_prefix(loopbacks[q])
       /\ \E i \in LinesAt(files[q], {KUpdateSource}) :
            files[q][i].a = ip_no_prefix(loopbacks[r])

(***************************************************************************)
(* C10.  For every link endpoint (router, interface) the accepted document *)
(* declares, the router's file has an interface block for that interface   *)
(* with the address allocated to the pair and 'no shutdown'; the Loopback0 *)
(* block has the router's loopback address and 'no shutdown'; no interface *)
(* block is without 'no shutdown'.                                         *)
(***************************************************************************)
\* the indices of the block that starts at line i: up to its "exit"
C10_Block(cfg, i) ==
  {j \in i..Len(cfg) : \A m \in i..j : cfg[m].k # "exit"}

C10_Enabled(cfg, i) ==
  /\ \E j \in C10_Block(cfg, i) : cfg[j] = Line(" no shutdown")
  /\ \E j \in i..Len(cfg) : cfg[j].k = "exit"

KIgpArea == " ipv6 ospf {} area {}"
KIgpCost == " ipv6 ospf cost {}"
KIgpRip == " ipv6 rip {} enable"
KIgpIface == {KIgpArea, KIgpCost, KIgpRip}
KIgpGlobal == {"ipv6 router ospf {}", "ipv6 router rip {}", " router-id {}"}
SupportedIgp == {"none", "ospfv3", "ripng"}

\* the igp settings of the AS of router r
C11_IgpOf(r) == AsData(intent, AsOf(r)).igp

\* the IGP stanza lines of the interface block that starts at line i
C11_Stanzas(cfg, i) ==
  SelectSeq(SubSeq(cfg, i, i + Cardinality(C10_Block(cfg, i)) - 1),
            LAMBDA l : l.k \in KIgpIface)

\* the stanza the claim gives an interface: intra tells whether it is
\* Loopback0 or on an intra-AS link, has_cost and cost are the link's override
C11_Expected(igp, intra, has_cost, cost) ==
  IF ~intra \/ igp.type = "none" THEN <<>>
  ELSE IF igp.type = "ospfv3"
       THEN <<LineNM(KIgpArea, igp.process_id, igp.area)>>
            \o (IF has_cost THEN <<LineN(KIgpCost, cost)>> ELSE <<>>)
       ELSE <<LineS(KIgpRip, ProcessName(igp))>>

C11_FileStanzas(r) ==
  LET cfg == files[r]
      igp == C11_IgpOf(r)
  IN /\ igp.type \in SupportedIgp
     /\ \A i \in LinesAt(cfg, {"interface Loopback0"}) :
          C11_Stanzas(cfg, i) = C11_Expected(igp, TRUE, FALSE, 0)
     /\ \A x \in 1..Len(intent.links) :
          \A e \in 1..Len(intent.links[x].endpoints) :
            LET link == intent.links[x]
                ep == link.endpoints[e]
            IN ep.router = r =>
                 /\ \E i \in LinesAt(cfg, {"interface {}"}) :
                      cfg[i].s = ep.interface
                 /\ \A i \in LinesAt(cfg, {"interface {}"}) :
                      cfg[i].s = ep.interface =>
                        C11_Stanzas(cfg, i)
                          = C11_Expected(igp, link.type = "intra_as",
                                         link.has_cost, link.ospf_cost)
     /\ \A i \in LinesAt(cfg, {"interface {}"}) :
          \E x \in 1..Len(intent.links) :
            \E e \in 1..Len(intent.links[x].endpoints) :
              /\ intent.links[x].endpoints[e].router = r
              /\ intent.links[x].endpoints[e].interface = cfg[i].s
     /\ \A j \in LinesAt(cfg, KIgpIface) :
          \E i \in LinesAt(cfg, {"interface {}", "interface Loopback0"}) :
            j \in C10_Block(cfg, i)
     /\ igp.type = "none" => LinesAt(cfg, KIgpIface \cup KIgpGlobal) = {}

\* in every state: the files written, and what an unsupported-IGP abort
\* was about
C11_State ==
  /\ \A r \in Written : C11_FileStanzas(r)
  /\ (pc = "aborted" /\ error = ErrIgp) =>
       /\ idx <= Len(intent.routers)
       /\ C11_IgpOf(intent.routers[idx].name).type \notin SupportedIgp

\* in every step: the turn of a router (with a loopback) of an AS of
\* unsupported variant aborts the run with the unsupported-IGP error
C11_Step ==
  (/\ pc = "generating"
   /\ idx <= Len(intent.routers)
   /\ intent.routers[idx].name \in DOMAIN loopbacks
   /\ C11_IgpOf(intent.routers[idx].name).type \notin SupportedIgp)
  => (pc' = "aborted" /\ error' = ErrIgp /\ files' = files)

C11_IgpStanzas == []C11_State /\ [][C11_Step]_vars

\* a run aborted by the unsupported variant of a later AS, after it wrote
\* the file of an ospfv3 router that has an intra-AS link with a cost, one
\* without, and an inter-AS link that declares a cost
C11_Witness ==
  /\ pc = "aborted" /\ error = ErrIgp
  /\ \E r \in Written :
       /\ C11_IgpOf(r).type = "ospfv3"
       /\ \E x \in 1..Len(intent.links) :
            /\ intent.links[x].type = "intra_as" /\ intent.links[x].has_cost
            /\ IsEndpoint(intent.links[x], r)
       /\ \E x \in 1..Len(intent.links) :
            /\ intent.links[x].type = "intra_as" /\ ~intent.links[x].has_cost
            /\ IsEndpoint(intent.links[x], r)
       /\ \E x \in 1..Len(intent.links) :
            /\ intent.links[x].type = "inter_as" /\ intent.links[x].has_cost
            /\ IsEndpoint(intent.links[x], r)
       /\ Cardinality(LinesAt(files[r], {KIgpCost})) = 1
       /\ Cardinality(LinesAt(files[r], {KIgpArea})) = 3


(***************************************************************************)
(* C12.  Compilation is deterministic: a run of the compiler on an intent  *)
(* document that an earlier run compiled writes, for every router, the     *)
(* same lines in the same order as that run, and completes with the same   *)
(* files, whatever the order in which the sets (the SELF prefixes, the     *)
(* intra-AS prefixes) iterate in either run.                               *)
(***************************************************************************)
C12_Deterministic ==
  \A k \in 1..Len(outputs) :
    /\ pc # "aborted"
    /\ \A r \in Written :
         r \in DOMAIN outputs[k] /\ files[r] = outputs[k][r]
    /\ pc = "done" => Written = DOMAIN outputs[k]

\* a later run completed, on a document with two intra-AS subnets and a
\* border router with BGP, whose file lists both sets
C12_Witness ==
  /\ Len(outputs) = 1
  /\ pc = "done"
  /\ BgpRequired(intent)
  /\ \E r \in Written :
       /\ IsBorder(r)
       /\ Cardinality(IntraSubnets(r)) = 2
       /\ Cardinality(LinesAt(files[r], {KPlPermit})) = 4
       /\ files[r] = outputs[1][r]


(***************************************************************************)
(* C13.  The relationship of an inter-AS link is applied identically at    *)
(* both ends: with BGP enabled, for every inter-AS link between routers R  *)
(* and S, the route-map pair R attaches to its neighbor S is the pair S    *)
(* attaches to its neighbor R.                                             *)
(* As stated by the claim; when a router has inter-AS links to two routers *)
(* that get the same address, it attaches to that address the pair of the  *)
(* first of them only.                                                     *)
(***************************************************************************)
\* the (out, in) route-maps file cfg attaches to neighbor ip
C13_Pair(cfg, ip) ==
  <<C2_Attached(cfg, ip, KAttachOut), C2_Attached(cfg, ip, KAttachIn)>>

C13_SameAtBothEnds ==
  BgpRequired(intent) =>
    \A x \in 1..Len(intent.links) :
      LET link == intent.links[x]
      IN (/\ link.type = "inter_as"
          /\ link.endpoints[1].router \in Written
          /\ link.endpoints[2].router \in Written) =>
           LET R == link.endpoints[1].router
               S == link.endpoints[2].router
               atR == C13_Pair(files[R], RemoteIp(link, R))
               atS == C13_Pair(files[S], RemoteIp(link, S))
           IN /\ Cardinality(atR[1]) = 1 /\ Cardinality(atR[2]) = 1
              /\ atR = atS

=============================================================================
